---- MODULE Spec2Model ----
(***************************************************************************)
(* A model of the array type and the late type of mobx-state-tree.         *)
(*                                                                         *)
(* The array part follows one observable array that is the target of one   *)
(* tree node (its MSTAdministration).  A mutation of the array runs in the *)
(* two phases the reactive container gives it: the interceptor, willChange,*)
(* which may reject, cancel or rewrite the change and which does the       *)
(* parent/path bookkeeping of the children; the commit of the rewritten    *)
(* change by the container; and the observer, didChange, which emits the   *)
(* patches.  Indices are 0-based as in the source; Sequences are 1-based,  *)
(* hence the "+ 1" wherever a sequence is indexed.                         *)
(***************************************************************************)
EXTENDS Integers, Sequences, FiniteSets, TLC

\* ---------------------------------------------------------------- bounds
MaxLen == 2        \* longest array
MaxAdd == 2        \* most values one splice inserts

\* Enough node ids for every mutation within the bounds: the children before
\* it and, one for each value offered, the nodes the caller brings and the
\* nodes the mutation creates.
MaxNodes == MaxLen + (IF MaxAdd > MaxLen THEN MaxAdd ELSE MaxLen)
NodeIds == 1 .. MaxNodes
\* Two conforming plain values that differ: enough to tell elements apart.
SnapVals == {0, 1}

\* ---------------------------------------------------------------- values
\* A value held by, or offered to, the array: a plain value that conforms to
\* the member type (for a model member type: a snapshot), a plain value that
\* does not conform, or a live tree node.
Plain(v) == [k |-> "plain", v |-> v]
Invalid == [k |-> "invalid", v |-> 0]
Node(n) == [k |-> "node", v |-> n]
\* What a caller offers besides: a node made for the occasion with
\* T.create(v), still detached, and a node that is a child of another tree.
Detached(v) == [k |-> "detached", v |-> v]
Foreign(v) == [k |-> "foreign", v |-> v]

isMST(value) == value.k = "node"

NoChange == [type |-> "none", index |-> 0, removedCount |-> 0, added |-> <<>>]
NoCall == [api |-> "none", request |-> NoChange]

VARIABLES
    subType,      \* member type of the array: "number" or "model"
    items,        \* the observable array (node.target)
    live,         \* node ids of the tree nodes that are alive
    parent,       \* per node: "none", "array" (this array's node) or "other"
    subpath,      \* per node: its path segment under its parent
    snapshot,     \* per node: its current snapshot
    writable,     \* outcome of node.assertWritable()
    pc,           \* position of the mutation in flight
    change,       \* the change object handed to willChange / didChange
    call,         \* the entry point of the mutation in flight and the change it asked for
    preItems,     \* the array as it was when the mutation started
    preSnapshot,  \* serialize(node) when the mutation started
    patches       \* the patches emitted by the mutation in flight, in order

arrayVars == <<subType, items, live, parent, subpath, snapshot, writable, pc,
               change, call, preItems, preSnapshot, patches>>

VARIABLES
    binding,         \* late: the type the supplier returns when it is invoked now
    _subType,        \* late: Late._subType, Null until resolved
    definitionCalls, \* late: how often the supplier (definition) was invoked
    accessed,        \* late: whether any of the five accesses has happened
    usedTargets,     \* late: the targets the accesses so far have worked on
    lateCall,        \* late: the last access and its arguments
    lateResult       \* late: what the last access returned

lateVars == <<binding, _subType, definitionCalls, accessed, usedTargets, lateCall,
              lateResult>>

VARIABLES
    checkValue,      \* validation: the value handed to isValidSnapshot
    checkContext,    \* validation: the context handed to isValidSnapshot
    checkDone,       \* validation: whether isValidSnapshot has run
    checkResult      \* validation: its result, the list of failures

checkVars == <<checkValue, checkContext, checkDone, checkResult>>

VARIABLES
    snapshotTree,    \* traversal: the snapshot, a tree of Book snapshots
    junk,            \* traversal: the node of the snapshot that is no object (0: none)
    entry,           \* traversal: the descriptor the operation is called on
    visitOp,         \* traversal: "validate", "create" or "describe"
    visitPc,         \* traversal: "ready", "running" or "returned"
    stack,           \* traversal: the descriptor visits still to make
    visits,          \* traversal: the descriptor visits made
    failures         \* traversal: the validation failures found

visitVars == <<snapshotTree, junk, entry, visitOp, visitPc, stack, visits, failures>>

VARIABLES
    unionArgs,       \* union: the member types as passed to types.union
    unionSnapshot,   \* union: the snapshot handed to create
    unionDone,       \* union: whether create has run
    unionResult      \* union: what create returned or threw

unionVars == <<unionArgs, unionSnapshot, unionDone, unionResult>>

VARIABLES
    todoId,          \* identifier: the id of the instance, Null before it is created
    todoName,        \* identifier: the other property of the instance
    todoCall,        \* identifier: the last operation and its argument
    todoOutcome      \* identifier: what the last operation returned or threw

todoVars == <<todoId, todoName, todoCall, todoOutcome>>

VARIABLES
    refMode,         \* reference: "identifier" (base path given) or "path" (generic $ref)
    users,           \* reference: the users collection of the store, a list of nodes
    userName,        \* reference: per node, its name property
    stored,          \* reference: the value the reference property holds
    assigned,        \* reference: the node last assigned to the property (0: none)
    assignedAt,      \* reference: the index that node had when it was assigned
    refCall,         \* reference: the last operation on the store
    refResult        \* reference: what the last read of the property returned

refVars == <<refMode, users, userName, stored, assigned, assignedAt, refCall, refResult>>

VARIABLES
    childCall,       \* child lookup: the last introspection call on the array node and its key
    childResult      \* child lookup: what it returned, a list of pairs or a node or null

childVars == <<childCall, childResult>>

\* The parts of the state added to the array, the late type and the
\* validation.
restVars == <<visitVars, unionVars, todoVars, refVars, childVars>>

vars == <<arrayVars, lateVars, checkVars, restVars>>

\* What the steps of the array leave alone.
ArrayFrame == UNCHANGED <<lateVars, checkVars, restVars>>

\* ---------------------------------------------------------------- helpers
At(seq, i) == seq[i + 1]

Slice(seq, from, to) == SubSeq(seq, from + 1, to)

Range(seq) == {seq[j] : j \in 1 .. Len(seq)}

SeqsUpTo(S, n) == UNION {[1 .. m -> S] : m \in 0 .. n}

Min(a, b) == IF a < b THEN a ELSE b

\* "" + i
str(i) == ToString(i)

IsIndex(s) == \E i \in 0 .. (MaxLen + MaxAdd + 1) : str(i) = s

\* parseInt(s, 10) for a string that IsIndex; every other string gives NaN
parseInt(s) == CHOOSE i \in 0 .. (MaxLen + MaxAdd + 1) : str(i) = s

valueToSnapshot(value) == IF isMST(value) THEN snapshot[value.v] ELSE value.v

serialize(target) == [j \in 1 .. Len(target) |-> valueToSnapshot(target[j])]

NodesOf(seq) == {seq[j].v : j \in {i \in 1 .. Len(seq) : isMST(seq[i])}}

RECURSIVE Smallest(_, _)
Smallest(S, n) ==
    IF n = 0 \/ S = {} THEN <<>>
    ELSE LET m == CHOOSE x \in S : \A y \in S : x <= y
         IN <<m>> \o Smallest(S \ {m}, n - 1)

\* The bookkeeping of the tree nodes (their MSTAdministration records).
Admin == [live |-> live, parent |-> parent, subpath |-> subpath, snapshot |-> snapshot]

\* ------------------------------------------------------- reconciliation
\* The values a caller can offer to the array.
Inputs ==
    {Plain(v) : v \in SnapVals} \cup {Invalid}
        \cup (IF subType = "model"
              THEN {Node(n) : n \in live} \cup {Detached(v) : v \in SnapVals}
                       \cup {Foreign(0)}
              ELSE {})

\* The plain values a snapshot of the array can be made of.
SnapshotInputs == {Plain(v) : v \in SnapVals} \cup {Invalid}

\* The nodes the caller brings exist before the array is touched: each
\* Detached(v) or Foreign(v) among the values is a live node of its own.
Brought(values, adm) ==
    LET at == {j \in 1 .. Len(values) : values[j].k \in {"detached", "foreign"}}
        fresh == Smallest(NodeIds \ adm.live, Cardinality(at))
        rank(j) == Cardinality({i \in at : i <= j})
        idOf(j) == fresh[rank(j)]
        posOf(n) == CHOOSE j \in at : idOf(j) = n
        ids == {idOf(j) : j \in at}
    IN  IF at = {} THEN [values |-> values, adm |-> adm]
        ELSE
        [values |-> [j \in 1 .. Len(values) |->
                        IF j \in at THEN Node(idOf(j)) ELSE values[j]],
         adm |-> [live |-> adm.live \cup ids,
                  parent |-> [n \in NodeIds |->
                                 IF n \in ids
                                 THEN (IF values[posOf(n)].k = "foreign"
                                       THEN "other" ELSE "none")
                                 ELSE adm.parent[n]],
                  subpath |-> [n \in NodeIds |->
                                  IF n \in ids
                                  THEN (IF values[posOf(n)].k = "foreign"
                                        THEN str(0) ELSE "")
                                  ELSE adm.subpath[n]],
                  snapshot |-> [n \in NodeIds |->
                                   IF n \in ids THEN values[posOf(n)].v
                                   ELSE adm.snapshot[n]]]]

\* Positions of newValues for which the member type creates a fresh node.
CreatedAt(newValues) ==
    IF subType = "model"
    THEN {j \in 1 .. Len(newValues) : newValues[j].k = "plain"}
    ELSE {}

\* node.reconcileChildren(childType, oldValues, newValues, newPaths): every
\* incoming value is checked first (a plain value against the member type; a
\* tree node must be alive and either detached or one of the old values, and
\* is offered once); only when all pass are nodes created, re-parented and
\* the old nodes that were not taken over destroyed.
reconcileFails(oldValues, newValues, adm) ==
    \E j \in 1 .. Len(newValues) :
        \/ newValues[j].k = "invalid"
        \/ /\ isMST(newValues[j])
           /\ \/ subType # "model"
              \/ newValues[j].v \notin adm.live
              \/ /\ adm.parent[newValues[j].v] # "none"
                 /\ ~ (/\ adm.parent[newValues[j].v] = "array"
                       /\ newValues[j].v \in NodesOf(oldValues))
              \/ \E i \in 1 .. (j - 1) : newValues[i] = newValues[j]

reconcileChildren(oldValues, newValues, newPaths, adm) ==
    LET created == CreatedAt(newValues)
        fresh == Smallest(NodeIds \ adm.live, Cardinality(created))
        rank(j) == Cardinality({i \in created : i <= j})
        res == [j \in 1 .. Len(newValues) |->
                   IF j \in created THEN Node(fresh[rank(j)]) ELSE newValues[j]]
        taken == NodesOf(res)
        dead == NodesOf(oldValues) \ taken
        posOf(n) == CHOOSE j \in 1 .. Len(res) : res[j] = Node(n)
    IN  [res |-> res,
         adm |-> [live |-> (adm.live \cup taken) \ dead,
                  parent |-> [n \in NodeIds |->
                                 IF n \in dead THEN "none"
                                 ELSE IF n \in taken THEN "array" ELSE adm.parent[n]],
                  subpath |-> [n \in NodeIds |->
                                  IF n \in dead THEN ""
                                  ELSE IF n \in taken THEN str(newPaths[posOf(n)])
                                  ELSE adm.subpath[n]],
                  snapshot |-> [n \in NodeIds |->
                                   IF n \in dead THEN 0
                                   ELSE IF \E j \in created : res[j] = Node(n)
                                        THEN newValues[posOf(n)].v
                                        ELSE adm.snapshot[n]]]]

\* ------------------------------------------------------------ willChange
UpdateChange(index, newValue) ==
    [type |-> "update", index |-> index, removedCount |-> 1, added |-> <<newValue>>]

SpliceChange(index, removedCount, added) ==
    [type |-> "splice", index |-> index, removedCount |-> removedCount, added |-> added]

newValueOf(ch) == ch.added[1]

\* Reindexed without the removed elements taken into account.
ReindexedIgnoringRemoved(sub, index, removedCount, addedLength) ==
    [n \in NodeIds |->
        IF \E i \in (index + removedCount) .. (Len(items) - 1) : At(items, i) = Node(n)
        THEN str((CHOOSE i \in (index + removedCount) .. (Len(items) - 1) :
                     At(items, i) = Node(n)) + addedLength)
        ELSE sub[n]]

\* "update paths of remaining items": the children behind the spliced range
\* get the path segment of the position they will have.
Reindexed(sub, index, removedCount, addedLength) ==
    [n \in NodeIds |->
        IF \E i \in (index + removedCount) .. (Len(items) - 1) : At(items, i) = Node(n)
        THEN str((CHOOSE i \in (index + removedCount) .. (Len(items) - 1) :
                     At(items, i) = Node(n)) + addedLength - removedCount)
        ELSE sub[n]]

Thrown(ch, adm) == [outcome |-> "rejected", change |-> ch, adm |-> adm]

Cancelled(ch, adm) == [outcome |-> "cancelled", change |-> ch, adm |-> adm]

Accepted(ch, adm) == [outcome |-> "intercepted", change |-> ch, adm |-> adm]

\* willChange with the paths of the remaining items updated before the
\* incoming values are reconciled.
willChangeReindexFirst(ch, canWrite, adm) ==
    IF ~ canWrite THEN Thrown(ch, adm)
    ELSE IF ch.type = "update"
    THEN IF newValueOf(ch) = At(items, ch.index) THEN Cancelled(ch, adm)
         ELSE IF reconcileFails(<<At(items, ch.index)>>, <<newValueOf(ch)>>, adm)
         THEN Thrown(ch, adm)
         ELSE LET r == reconcileChildren(<<At(items, ch.index)>>, <<newValueOf(ch)>>,
                                         <<ch.index>>, adm)
              IN Accepted(UpdateChange(ch.index, r.res[1]), r.adm)
    ELSE LET old == Slice(items, ch.index, ch.index + ch.removedCount)
             moved == [adm EXCEPT !.subpath =
                          Reindexed(adm.subpath, ch.index, ch.removedCount, Len(ch.added))]
         IN IF reconcileFails(old, ch.added, moved) THEN Thrown(ch, moved)
            ELSE LET r == reconcileChildren(old, ch.added,
                              [j \in 1 .. Len(ch.added) |-> ch.index + j - 1], moved)
                 IN Accepted(SpliceChange(ch.index, ch.removedCount, r.res), r.adm)

\* willChange that hands the change on as it came, nothing reconciled.
willChangeUnreconciled(ch, canWrite, adm) ==
    IF ~ canWrite THEN Thrown(ch, adm)
    ELSE IF ch.type = "update" /\ newValueOf(ch) = At(items, ch.index) THEN Cancelled(ch, adm)
    ELSE Accepted(ch, adm)

\* willChange without the test for the value that is already there.
willChangeReconcilingIdentical(ch, canWrite, adm) ==
    IF ~ canWrite THEN Thrown(ch, adm)
    ELSE IF ch.type = "update"
    THEN IF reconcileFails(<<At(items, ch.index)>>, <<newValueOf(ch)>>, adm)
         THEN Thrown(ch, adm)
         ELSE LET r == reconcileChildren(<<At(items, ch.index)>>, <<newValueOf(ch)>>,
                                         <<ch.index>>, adm)
              IN Accepted(UpdateChange(ch.index, r.res[1]), r.adm)
    ELSE LET old == Slice(items, ch.index, ch.index + ch.removedCount)
         IN IF reconcileFails(old, ch.added, adm) THEN Thrown(ch, adm)
            ELSE LET r == reconcileChildren(old, ch.added,
                              [j \in 1 .. Len(ch.added) |-> ch.index + j - 1], adm)
                 IN Accepted(SpliceChange(ch.index, ch.removedCount, r.res),
                             [r.adm EXCEPT !.subpath =
                                 Reindexed(r.adm.subpath, ch.index, ch.removedCount,
                                           Len(ch.added))])

\* willChange with node.assertWritable() after the work instead of before.
willChangeWritableLast(ch, canWrite, adm) ==
    IF ch.type = "update"
    THEN IF newValueOf(ch) = At(items, ch.index) THEN Cancelled(ch, adm)
         ELSE IF reconcileFails(<<At(items, ch.index)>>, <<newValueOf(ch)>>, adm)
         THEN Thrown(ch, adm)
         ELSE LET r == reconcileChildren(<<At(items, ch.index)>>, <<newValueOf(ch)>>,
                                         <<ch.index>>, adm)
              IN IF canWrite THEN Accepted(UpdateChange(ch.index, r.res[1]), r.adm)
                 ELSE Thrown(ch, r.adm)
    ELSE LET old == Slice(items, ch.index, ch.index + ch.removedCount)
         IN IF reconcileFails(old, ch.added, adm) THEN Thrown(ch, adm)
            ELSE LET r == reconcileChildren(old, ch.added,
                              [j \in 1 .. Len(ch.added) |-> ch.index + j - 1], adm)
                     moved == [r.adm EXCEPT !.subpath =
                                  Reindexed(r.adm.subpath, ch.index, ch.removedCount,
                                            Len(ch.added))]
                 IN IF canWrite
                    THEN Accepted(SpliceChange(ch.index, ch.removedCount, r.res), moved)
                    ELSE Thrown(ch, moved)

\* willChange(change), with the outcome of node.assertWritable() as canWrite
\* and the bookkeeping of the tree nodes as adm
willChange(ch, canWrite, adm) ==
    IF ~ canWrite THEN Thrown(ch, adm)
    ELSE IF ch.type = "update"
    THEN IF newValueOf(ch) = At(items, ch.index) THEN Cancelled(ch, adm)
         ELSE IF reconcileFails(<<At(items, ch.index)>>, <<newValueOf(ch)>>, adm)
         THEN Thrown(ch, adm)
         ELSE LET r == reconcileChildren(<<At(items, ch.index)>>, <<newValueOf(ch)>>,
                                         <<ch.index>>, adm)
              IN Accepted(UpdateChange(ch.index, r.res[1]), r.adm)
    ELSE LET old == Slice(items, ch.index, ch.index + ch.removedCount)
         IN IF reconcileFails(old, ch.added, adm) THEN Thrown(ch, adm)
            ELSE LET r == reconcileChildren(old, ch.added,
                              [j \in 1 .. Len(ch.added) |-> ch.index + j - 1], adm)
                 IN Accepted(SpliceChange(ch.index, ch.removedCount, r.res),
                             [r.adm EXCEPT !.subpath =
                                 Reindexed(r.adm.subpath, ch.index, ch.removedCount,
                                           Len(ch.added))])

\* ------------------------------------------------------------- didChange
Undefined == <<>>

Patch(op, path, value) == [op |-> op, path |-> path, value |-> value]

\* for (let i = index + removedCount - 1; i >= index; i--) patch = {remove i}
\* The loop has no braces: its body is the assignment alone.
RECURSIVE RemoveLoop(_, _, _)
RemoveLoop(patch, i, index) ==
    IF i >= index
    THEN RemoveLoop(Patch("remove", str(i), Undefined), i - 1, index)
    ELSE patch

\* for (let i = 0; i < addedCount; i++) patch = {add index + i, added[i]}
\* Again the body of the loop is the assignment alone.
RECURSIVE AddLoop(_, _, _)
AddLoop(patch, i, ch) ==
    IF i < Len(ch.added)
    THEN AddLoop(Patch("add", str(ch.index + i), <<valueToSnapshot(At(ch.added, i))>>),
                 i + 1, ch)
    ELSE patch

\* didChange with the replace patch of an update addressed one too far.
didChangeShifted(ch) ==
    IF ch.type = "update"
    THEN <<Patch("replace", str(ch.index + 1), <<valueToSnapshot(newValueOf(ch))>>)>>
    ELSE LET initial == Patch("replace", "", Undefined)
             afterRemove == RemoveLoop(initial, ch.index + ch.removedCount - 1, ch.index)
             afterAdd == AddLoop(afterRemove, 0, ch)
         IN <<afterRemove, afterAdd>>

\* The patches didChange hands to node.emitPatch, in order.  Each of the two
\* emitPatch calls of the splice case stands after its loop, not in it.
didChange(ch) ==
    IF ch.type = "update"
    THEN <<Patch("replace", str(ch.index), <<valueToSnapshot(newValueOf(ch))>>)>>
    ELSE LET initial == Patch("replace", "", Undefined)
             afterRemove == RemoveLoop(initial, ch.index + ch.removedCount - 1, ch.index)
             afterAdd == AddLoop(afterRemove, 0, ch)
         IN <<afterRemove, afterAdd>>

\* -------------------------------------------------- the mutation in flight
\* The bound of the model: an accepted change keeps the array within MaxLen.
WithinBounds(ch) ==
    Len(items) - (IF ch.type = "update" THEN 1 ELSE ch.removedCount) + Len(ch.added) <= MaxLen

\* A mutation enters the interceptor registered in finalizeNewInstance.  The
\* change names the values as the caller offered them; the nodes the caller
\* brings exist when willChange runs.
Intercept(ch, api, canWrite) ==
    /\ LET b == Brought(ch.added, Admin)
           r == willChange([ch EXCEPT !.added = b.values], canWrite, b.adm)
       IN /\ r.outcome = "intercepted" => WithinBounds(ch)
          /\ pc' = r.outcome
          /\ change' = r.change
          /\ live' = r.adm.live
          /\ parent' = r.adm.parent
          /\ subpath' = r.adm.subpath
          /\ snapshot' = r.adm.snapshot
    /\ call' = [api |-> api, request |-> ch]
    /\ preItems' = items
    /\ preSnapshot' = serialize(items)
    /\ patches' = <<>>
    /\ UNCHANGED <<subType, items, writable>>
    /\ ArrayFrame

\* array[index] = newValue, for an index below the length
ArrayUpdate ==
    /\ pc = "idle"
    /\ \E index \in 0 .. (Len(items) - 1), newValue \in Inputs :
           Intercept(UpdateChange(index, newValue), "update", writable)

\* array.splice(index, removedCount, ...added), with the index and the count
\* as the container normalises them
ArraySplice ==
    /\ pc = "idle"
    /\ \E index \in 0 .. Len(items) :
           \E removedCount \in 0 .. (Len(items) - index), added \in SeqsUpTo(Inputs, MaxAdd) :
               Intercept(SpliceChange(index, removedCount, added),
                         "splice", writable)

\* applySnapshot that appends the snapshot instead of replacing the contents.
applySnapshotAppending ==
    /\ pc = "idle"
    /\ \E snap \in SeqsUpTo(SnapshotInputs, MaxLen) :
           Intercept(SpliceChange(Len(items), 0, snap), "applySnapshot", TRUE)

\* applySnapshot(node, snapshot): target.replace(snapshot) inside a pseudo
\* action, which makes the node writable for its duration.
applySnapshot ==
    /\ pc = "idle"
    /\ \E snap \in SeqsUpTo(SnapshotInputs, MaxLen) :
           Intercept(SpliceChange(0, Len(items), snap),
                     "applySnapshot", TRUE)

\* removeChild(node, subpath): node.target.splice(parseInt(subpath, 10), 1)
removeChild ==
    /\ pc = "idle"
    /\ \E index \in 0 .. (Len(items) - 1) :
           Intercept(SpliceChange(parseInt(str(index)), 1, <<>>),
                     "removeChild", writable)

\* The container applies the change the interceptor returned and notifies
\* the observer if something changed.
Commit ==
    /\ pc = "intercepted"
    /\ items' = IF change.type = "update"
                THEN [items EXCEPT ![change.index + 1] = newValueOf(change)]
                ELSE Slice(items, 0, change.index) \o change.added
                         \o Slice(items, change.index + change.removedCount, Len(items))
    /\ pc' = IF change.type = "update"
             THEN (IF newValueOf(change) # At(items, change.index) THEN "changed" ELSE "done")
             ELSE (IF change.removedCount # 0 \/ Len(change.added) # 0
                   THEN "changed" ELSE "done")
    /\ UNCHANGED <<subType, live, parent, subpath, snapshot, writable, change, call,
                   preItems, preSnapshot, patches>>
    /\ ArrayFrame

\* The observer registered in finalizeNewInstance runs didChange.
DidChange ==
    /\ pc = "changed"
    /\ patches' = didChange(change)
    /\ pc' = "done"
    /\ UNCHANGED <<subType, items, live, parent, subpath, snapshot, writable, change,
                   call, preItems, preSnapshot>>
    /\ ArrayFrame

\* applyPatchLocally(node, subpath, patch) on the array node (key is its subpath argument)
applyPatchLocally ==
    /\ pc = "idle"
    /\ \E key \in {"-"} \cup {str(i) : i \in 0 .. Len(items)},
          op \in {"replace", "add", "remove"} :
           \E value \in (IF op = "remove" THEN {Invalid} ELSE SnapshotInputs) :
               LET index == IF key = "-" THEN Len(items) ELSE parseInt(key)
                   cl == "applyPatchLocally"
               IN  CASE op = "replace" ->
                           \* target[index] = patch.value: an update below the
                           \* length, an append at the length
                           IF index < Len(items)
                           THEN Intercept(UpdateChange(index, value), cl, writable)
                           ELSE Intercept(SpliceChange(index, 0, <<value>>), cl, writable)
                     [] op = "add" ->
                           Intercept(SpliceChange(Min(index, Len(items)), 0, <<value>>),
                                     cl, writable)
                     [] op = "remove" ->
                           Intercept(SpliceChange(Min(index, Len(items)),
                                                  Min(1, Len(items) - index), <<>>),
                                     cl, writable)

\* The same operation as a function of the array's snapshot, for replaying a
\* patch stream on a second array that holds conforming values.  A subpath
\* that is no index parses to NaN, and assigning target[NaN] changes no
\* element.
applyPatchTo(target, key, patch) ==
    IF key # "-" /\ ~ IsIndex(key)
    THEN target
    ELSE LET index == IF key = "-" THEN Len(target) ELSE parseInt(key)
             at == Min(index, Len(target))
         IN  CASE patch.op = "replace" ->
                     IF index < Len(target)
                     THEN [target EXCEPT ![index + 1] = patch.value[1]]
                     ELSE IF index = Len(target) THEN Append(target, patch.value[1])
                     ELSE target
               [] patch.op = "add" ->
                     Slice(target, 0, at) \o <<patch.value[1]>>
                         \o Slice(target, at, Len(target))
               [] patch.op = "remove" ->
                     Slice(target, 0, at)
                         \o Slice(target, at + Min(1, Len(target) - at), Len(target))

\* unprotect(node) and its converse
unprotect ==
    /\ pc = "idle"
    /\ writable' = ~ writable
    /\ UNCHANGED <<subType, items, live, parent, subpath, snapshot, pc, change, call,
                   preItems, preSnapshot, patches>>
    /\ ArrayFrame

\* Node ids are names.  When the mutation has run to completion the children
\* are renamed, the child at index i to node i + 1, and the nodes outside the
\* array, which are the caller's, are left out of the account.
Renaming ==
    LET rest == NodeIds \ NodesOf(items)
        rankRest(n) == Cardinality({m \in rest : m <= n})
    IN  [n \in NodeIds |->
            IF n \in NodesOf(items)
            THEN CHOOSE j \in 1 .. Len(items) : items[j] = Node(n)
            ELSE Cardinality(NodesOf(items)) + rankRest(n)]

\* The mutation has run to completion (or was rejected or cancelled) and
\* control returns to the caller.
Return ==
    /\ pc \in {"done", "rejected", "cancelled"}
    /\ pc' = "idle"
    /\ LET to == Renaming
           from == [m \in NodeIds |-> CHOOSE n \in NodeIds : to[n] = m]
           kept == NodesOf(items)
       IN /\ items' = [j \in 1 .. Len(items) |->
                          IF isMST(items[j]) THEN Node(to[items[j].v]) ELSE items[j]]
          /\ live' = {to[n] : n \in kept}
          /\ parent' = [m \in NodeIds |->
                           IF from[m] \in kept THEN parent[from[m]] ELSE "none"]
          /\ subpath' = [m \in NodeIds |->
                            IF from[m] \in kept THEN subpath[from[m]] ELSE ""]
          /\ snapshot' = [m \in NodeIds |->
                             IF from[m] \in kept THEN snapshot[from[m]] ELSE 0]
    /\ change' = NoChange
    /\ call' = NoCall
    /\ preItems' = <<>>
    /\ preSnapshot' = <<>>
    /\ patches' = <<>>
    /\ UNCHANGED <<subType, writable>>
    /\ ArrayFrame

\* ============================================================ late type
Null == "null"

\* The types a supplier can return: a primitive, a model with an identifier
\* (Book of test/reference.ts) and an array of that model.
Targets == {"number", "Book", "BookArray"}

typeName(t) ==
    CASE t = "number" -> "number" [] t = "Book" -> "Book" [] t = "BookArray" -> "Book[]"

typeDescribe(t) ==
    CASE t = "number" -> "number"
      [] t = "Book" -> "{ id: identifier; price: number }"
      [] t = "BookArray" -> "{ id: identifier; price: number }[]"

typeFlags(t) ==
    CASE t = "number" -> "Number" [] t = "Book" -> "Object" [] t = "BookArray" -> "Array"

typeIdentifierAttribute(t) == IF t = "Book" THEN "id" ELSE Null

\* The values and snapshots tried on the types, the contexts and the
\* environments.
LateValues == {"aNumber", "aBook", "aBookList", "junk"}
LateContexts == {<<>>, <<"entries", "0">>}
Environments == {"undefined", "env"}

Conforms(t, value) ==
    \/ t = "number" /\ value = "aNumber"
    \/ t = "Book" /\ value = "aBook"
    \/ t = "BookArray" /\ value = "aBookList"

typeValidate(t, value, context) ==
    IF Conforms(t, value) THEN <<>> ELSE <<[context |-> context, value |-> value]>>

\* create validates first and throws the failures; otherwise the instance is
\* of the type, made from the snapshot in the environment.
typeCreate(t, snap, environment) ==
    IF Conforms(t, snap)
    THEN [threw |-> FALSE, type |-> t, snapshot |-> snap, environment |-> environment,
          errors |-> <<>>]
    ELSE [threw |-> TRUE, type |-> Null, snapshot |-> Null, environment |-> Null,
          errors |-> typeValidate(t, snap, <<>>)]

\* get subType() without the test of _subType: the supplier runs every time.
LateSubTypeUncached(cache, supplied) ==
    [target |-> supplied, cache |-> supplied, invoked |-> TRUE]

\* get subType(): the cached target, or the supplier's and then cached
LateSubType(cache, supplied) ==
    IF cache = Null
    THEN [target |-> supplied, cache |-> supplied, invoked |-> TRUE]
    ELSE [target |-> cache, cache |-> cache, invoked |-> FALSE]

lateFlags(target) == typeFlags(target)

\* create that forwards the snapshot alone.
lateCreateWithoutEnvironment(target, snap, environment) ==
    typeCreate(target, snap, "undefined")

lateCreate(target, snap, environment) == typeCreate(target, snap, environment)

\* describe that answers with the late type's own name, unresolved.
lateDescribeOwnName(target) == "<late>"

\* describe() returns this.subType.name
lateDescribe(target) == typeName(target)

lateValidate(target, value, context) == typeValidate(target, value, context)

lateIdentifierAttribute(target) == typeIdentifierAttribute(target)

NoLateCall == [op |-> "none", value |-> Null, context |-> <<>>, environment |-> Null]

LateCall(op, value, context, environment) ==
    [op |-> op, value |-> value, context |-> context, environment |-> environment]

LateFrame == UNCHANGED <<arrayVars, checkVars, restVars, binding>>

\* One access of the late type: this.subType is read, then used.
Access(result(_)) ==
    LET got == LateSubType(_subType, binding)
    IN /\ _subType' = got.cache
       /\ definitionCalls' = definitionCalls + (IF got.invoked THEN 1 ELSE 0)
       /\ accessed' = TRUE
       /\ usedTargets' = usedTargets \cup {got.target}
       /\ lateResult' = result(got.target)
       /\ LateFrame

\* get flags()
GetFlags ==
    /\ lateCall' = LateCall("flags", Null, <<>>, Null)
    /\ Access(lateFlags)

\* create(snapshot, environment)
Create ==
    \E snap \in LateValues, environment \in Environments :
        LET result(target) == lateCreate(target, snap, environment)
        IN /\ lateCall' = LateCall("create", snap, <<>>, environment)
           /\ Access(result)

\* describe()
Describe ==
    /\ lateCall' = LateCall("describe", Null, <<>>, Null)
    /\ Access(lateDescribe)

\* validate(value, context)
Validate ==
    \E value \in LateValues, context \in LateContexts :
        LET result(target) == lateValidate(target, value, context)
        IN /\ lateCall' = LateCall("validate", value, context, Null)
           /\ Access(result)

\* get identifierAttribute()
GetIdentifierAttribute ==
    /\ lateCall' = LateCall("identifierAttribute", Null, <<>>, Null)
    /\ Access(lateIdentifierAttribute)

\* The supplier is a function: what it would return can change between calls
\* (it reads a binding that is assigned later).
Rebind ==
    /\ \E t \in Targets \ {binding} : binding' = t
    /\ UNCHANGED <<arrayVars, checkVars, restVars, _subType, definitionCalls, accessed,
                   usedTargets, lateCall, lateResult>>

\* ===================================================== array validation
\* The member type is a model of two number properties, x and y; an element
\* offered to it is an object with each property a number or a string, or no
\* object at all.
Elements ==
    [shape : {"object"}, x : {"num", "str"}, y : {"num", "str"}]
        \cup {[shape |-> "scalar", x |-> "none", y |-> "none"]}

MaxItems == 2      \* longest array value validated

CheckValues ==
    {[shape |-> sh, elems |-> <<>>] : sh \in {"object", "scalar"}}
        \cup {[shape |-> "array", elems |-> es] : es \in SeqsUpTo(Elements, MaxItems)}

CheckContexts == {<<>>, <<"todos">>}

typeCheckFailure(context, value) == <<[context |-> context, value |-> value]>>

getContextForPath(context, path) == Append(context, path)

RECURSIVE flattenTypeErrors(_)
flattenTypeErrors(errors) ==
    IF errors = <<>> THEN <<>>
    ELSE Head(errors) \o flattenTypeErrors(Tail(errors))

\* validate of the member model type: no object fails as a whole, an object
\* fails once for each property that does not conform, at the property's
\* sub-path.
memberValidate(item, context) ==
    IF item.shape # "object" THEN typeCheckFailure(context, item.shape)
    ELSE (IF item.x # "num"
          THEN typeCheckFailure(getContextForPath(context, "x"), item.x) ELSE <<>>)
         \o (IF item.y # "num"
             THEN typeCheckFailure(getContextForPath(context, "y"), item.y) ELSE <<>>)

\* The failures of the elements up to and including the first that fails.
RECURSIVE FirstFailure(_, _, _)
FirstFailure(elems, context, i) ==
    IF i >= Len(elems) THEN <<>>
    ELSE LET f == memberValidate(At(elems, i), getContextForPath(context, str(i)))
         IN IF f # <<>> THEN f ELSE FirstFailure(elems, context, i + 1)

\* isValidSnapshot that stops at the first element that fails.
isValidSnapshotShortCircuit(value, context) ==
    IF value.shape # "array" THEN typeCheckFailure(context, value.shape)
    ELSE FirstFailure(value.elems, context, 0)

isValidSnapshot(value, context) ==
    IF value.shape # "array" THEN typeCheckFailure(context, value.shape)
    ELSE flattenTypeErrors(
             [j \in 1 .. Len(value.elems) |->
                 memberValidate(value.elems[j], getContextForPath(context, str(j - 1)))])

\* The call of isValidSnapshot on the value drawn.
ValidateSnapshot ==
    /\ ~ checkDone
    /\ checkDone' = TRUE
    /\ checkResult' = isValidSnapshot(checkValue, checkContext)
    /\ UNCHANGED <<arrayVars, lateVars, restVars, checkValue, checkContext>>

\* ============================================= traversal of descriptors
\* The descriptor graph of "self reference with a late type", with an array
\* of the model itself besides: Book is a model of an identifier, a string, a
\* reference to late(() => Book) and an array of late(() => Book).  The only
\* way back to Book is through the late type.
Descriptors ==
    {"Book", "identifier", "string", "reference(late(Book))", "late(Book)[]", "late(Book)"}

kindOf(d) ==
    CASE d = "Book" -> "model"
      [] d = "reference(late(Book))" -> "reference"
      [] d = "late(Book)[]" -> "array"
      [] d = "late(Book)" -> "late"
      [] OTHER -> "primitive"

\* The descriptors a descriptor holds: the property types of the model, the
\* target of the reference, the member type of the array, what the supplier
\* of the late type returns.
membersOf(d) ==
    CASE d = "Book" -> <<"identifier", "string", "reference(late(Book))", "late(Book)[]">>
      [] d = "reference(late(Book))" -> <<"late(Book)">>
      [] d = "late(Book)[]" -> <<"late(Book)">>
      [] d = "late(Book)" -> <<"Book">>
      [] OTHER -> <<>>

Edges == {e \in Descriptors \X (1 .. 4) : e[2] <= Len(membersOf(e[1]))}

MaxSize == 4       \* most Book snapshots in one snapshot tree

\* A snapshot is finite: a tree of Book snapshots, node 1 the root, each other
\* node an element of the array of its parent node.
SnapshotTrees ==
    UNION {{p \in [1 .. n -> 0 .. (n - 1)] :
               /\ p[1] = 0
               /\ \A i \in 2 .. n : p[i] >= 1 /\ p[i] < i} : n \in 1 .. MaxSize}

\* The elements of the array of node v, in order.
elementsOf(v) ==
    LET at == {j \in 1 .. Len(snapshotTree) : snapshotTree[j] = v}
        nth(k) == CHOOSE j \in at : Cardinality({i \in at : i < j}) = k - 1
    IN [k \in 1 .. Cardinality(at) |-> nth(k)]

\* No operation visits more descriptors than this: every edge of the
\* descriptor graph once for each Book snapshot (for describe: once), and
\* create both validates and instantiates.
VisitBudget(op, size) ==
    CASE op = "describe" -> Cardinality(Edges) + 1
      [] op = "validate" -> (Cardinality(Edges) + 1) * size
      [] op = "create" -> 2 * (Cardinality(Edges) + 1) * size

\* The traversal is cut off here; no operation within its budget gets here.
VisitCap == VisitBudget("create", MaxSize) + 1

Frame(d, v, mode) == [d |-> d, v |-> v, mode |-> mode]

\* Model: validate fails at a value that is no object, and otherwise visits
\* the type of each property with the property's value; instantiation and
\* describe visit the type of each property.
modelVisit(mode, members, v) ==
    IF mode = "validate" /\ v = junk THEN <<>>
    ELSE [j \in 1 .. Len(members) |-> Frame(members[j], v, mode)]

\* Reference: the value is an identifier or a path, which is checked and
\* stored as it is; describe describes the target type.
referenceVisit(mode, target, v) ==
    IF mode = "describe" THEN <<Frame(target, v, mode)>> ELSE <<>>

\* ArrayType: describe() is subType.describe() + "[]"; isValidSnapshot and
\* the reconciliation of a snapshot visit the member type once per element.
arrayVisit(mode, member, v) ==
    IF mode = "describe" THEN <<Frame(member, v, mode)>>
    ELSE [k \in 1 .. Len(elementsOf(v)) |-> Frame(member, elementsOf(v)[k], mode)]

\* Late with describe() forwarded to the target's describe().
lateVisitDescribing(mode, target, v) == <<Frame(target, v, mode)>>

\* Late: validate and create go on in the target; describe() is the target's
\* name and visits nothing.
lateVisit(mode, target, v) ==
    IF mode = "describe" THEN <<>> ELSE <<Frame(target, v, mode)>>

\* The visits one visit asks for.
visitsOf(frame) ==
    LET members == membersOf(frame.d)
    IN CASE kindOf(frame.d) = "model" -> modelVisit(frame.mode, members, frame.v)
         [] kindOf(frame.d) = "reference" -> referenceVisit(frame.mode, members[1], frame.v)
         [] kindOf(frame.d) = "array" -> arrayVisit(frame.mode, members[1], frame.v)
         [] kindOf(frame.d) = "late" -> lateVisit(frame.mode, members[1], frame.v)
         [] OTHER -> <<>>

VisitFrame ==
    UNCHANGED <<arrayVars, lateVars, checkVars, unionVars, todoVars, refVars, childVars,
                snapshotTree, junk, entry, visitOp>>

\* The operation is called on the entry descriptor and the root of the
\* snapshot; create validates first.
VisitCall ==
    /\ visitPc = "ready"
    /\ visitPc' = "running"
    /\ stack' = <<Frame(entry, 1, IF visitOp = "create" THEN "validate" ELSE visitOp)>>
    /\ UNCHANGED <<visits, failures>>
    /\ VisitFrame

\* One descriptor is visited.
VisitStep ==
    /\ visitPc = "running"
    /\ stack # <<>>
    /\ visits < VisitCap
    /\ visits' = visits + 1
    /\ stack' = visitsOf(Head(stack)) \o Tail(stack)
    /\ failures' = failures + (IF /\ Head(stack).mode = "validate"
                                  /\ kindOf(Head(stack).d) = "model"
                                  /\ Head(stack).v = junk
                               THEN 1 ELSE 0)
    /\ UNCHANGED visitPc
    /\ VisitFrame

\* create: the snapshot validated, the instance is made of it.
VisitInstantiate ==
    /\ visitPc = "running"
    /\ stack = <<>>
    /\ visitOp = "create" /\ failures = 0
    /\ visitPc' = "instantiating"
    /\ stack' = <<Frame(entry, 1, "instantiate")>>
    /\ UNCHANGED <<visits, failures>>
    /\ VisitFrame

VisitInstantiateStep ==
    /\ visitPc = "instantiating"
    /\ stack # <<>>
    /\ visits < VisitCap
    /\ visits' = visits + 1
    /\ stack' = visitsOf(Head(stack)) \o Tail(stack)
    /\ UNCHANGED <<visitPc, failures>>
    /\ VisitFrame

\* Nothing is left to visit: the operation returns (or throws its failures).
VisitReturn ==
    /\ stack = <<>>
    /\ \/ visitPc = "instantiating"
       \/ visitPc = "running" /\ ~ (visitOp = "create" /\ failures = 0)
    /\ visitPc' = "returned"
    /\ UNCHANGED <<stack, visits, failures>>
    /\ VisitFrame

\* ================================================================ union
\* The models of test/union.ts and their properties, all numbers.
Models == {"Square", "Box", "Cube"}

propertiesOf(model) ==
    CASE model = "Square" -> <<"width">>
      [] model = "Box" -> <<"width", "height">>
      [] model = "Cube" -> <<"width", "height", "depth">>

\* A snapshot gives each key a number, a string or nothing at all.
UnionSnapshots == [{"width", "height", "depth"} -> {"num", "str", "undefined"}]

\* The unions without a dispatch function: two different models.
UnionArgs == {args \in Models \X Models : args[1] # args[2]}

\* validate of a model: every declared property must conform, at the
\* sub-path of the property; other keys are ignored.
RECURSIVE modelValidate(_, _, _)
modelValidate(properties, snap, context) ==
    IF properties = <<>> THEN <<>>
    ELSE (IF snap[Head(properties)] = "num" THEN <<>>
          ELSE typeCheckFailure(getContextForPath(context, Head(properties)),
                                snap[Head(properties)]))
         \o modelValidate(Tail(properties), snap, context)

NoneApplicable == "No type is applicable and no dispatch method is defined for the union"

MultipleApplicable == "Multiple types are applicable and no dispatch method is defined for the union"

\* The member list in the order the members were passed.
unionTypesAsPassed(args) == args

\* The member list of types.union(A, B): the union is named "B | A" and
\* reports B's failures before A's.
unionTypes(args) == Tail(args) \o <<Head(args)>>

\* create that takes the first member that validates the snapshot.
unionCreateFirstApplicable(args, snap) ==
    LET types == unionTypes(args)
        errors == [j \in 1 .. Len(types) |-> modelValidate(propertiesOf(types[j]), snap, <<>>)]
        applicable == {j \in 1 .. Len(types) : errors[j] = <<>>}
    IN  IF applicable # {}
        THEN [threw |-> FALSE, message |-> "", errors |-> <<>>, created |-> 1,
              type |-> types[CHOOSE j \in applicable : \A i \in applicable : j <= i]]
        ELSE [threw |-> TRUE, type |-> Null, message |-> NoneApplicable,
              errors |-> flattenTypeErrors(errors), created |-> 0]

\* create of a union without a dispatch function: the snapshot is validated
\* against every member; created counts the tree nodes made.
unionCreate(args, snap) ==
    LET types == unionTypes(args)
        errors == [j \in 1 .. Len(types) |-> modelValidate(propertiesOf(types[j]), snap, <<>>)]
        applicable == {j \in 1 .. Len(types) : errors[j] = <<>>}
    IN  IF Cardinality(applicable) = 1
        THEN [threw |-> FALSE, type |-> types[CHOOSE j \in applicable : TRUE],
              message |-> "", errors |-> <<>>, created |-> 1]
        ELSE IF applicable = {}
        THEN [threw |-> TRUE, type |-> Null, message |-> NoneApplicable,
              errors |-> flattenTypeErrors(errors), created |-> 0]
        ELSE [threw |-> TRUE, type |-> Null, message |-> MultipleApplicable,
              errors |-> <<>>, created |-> 0]

\* Box.is(doc) for an instance: doc is a node of that type.
is(model, instance) == instance.type = model

\* The call of create on the union and snapshot drawn.
UnionCreate ==
    /\ ~ unionDone
    /\ unionDone' = TRUE
    /\ unionResult' = unionCreate(unionArgs, unionSnapshot)
    /\ UNCHANGED <<arrayVars, lateVars, checkVars, visitVars, todoVars, refVars, childVars,
                   unionArgs, unionSnapshot>>

\* =========================================================== identifier
\* A model of an identifier and a name (User of test/reference.ts; Todo has
\* the identifier alone).  "undefined" is a missing property, "#4" the number
\* 4, which a string identifier does not accept.
IdStrings == {"x", "stuff", "17"}

Names == {"Michel", "Noa"}

TodoSnapshots == [id : IdStrings \cup {"undefined", "#4"}, name : Names]

isValidIdentifier(value) == value \in IdStrings

NotValid == "The provided identifier is not valid"

NotAllowed == "It is not allowed to change the identifier of an object"

Returned(id, name) ==
    [threw |-> FALSE, message |-> "", got |-> Null, expected |-> Null, id |-> id, name |-> name]

Threw(message, got, expected, id, name) ==
    [threw |-> TRUE, message |-> message, got |-> got, expected |-> expected,
     id |-> id, name |-> name]

\* validate of the model: the identifier is required and a string
todoValidate(snap) ==
    IF isValidIdentifier(snap.id) THEN <<>>
    ELSE <<[context |-> <<"id">>, value |-> snap.id, message |-> NotValid]>>

\* create validates first
todoCreate(snap) ==
    IF todoValidate(snap) # <<>> THEN Threw(NotValid, snap.id, Null, Null, Null)
    ELSE Returned(snap.id, snap.name)

\* Assignment to the identifier property that stores what it is given.
identifierAssignUnchecked(current, name, value) == Returned(value, name)

\* todo.id = value on an instance: only the value it has is accepted
identifierAssign(current, name, value) ==
    IF value = current THEN Returned(current, name)
    ELSE Threw(NotAllowed, value, current, current, name)

\* applySnapshot(todo, snap): the snapshot is validated, then its properties
\* are assigned, the identifier first.
todoApplySnapshot(current, name, snap) ==
    IF todoValidate(snap) # <<>> THEN Threw(NotValid, snap.id, Null, current, name)
    ELSE LET r == identifierAssign(current, name, snap.id)
         IN IF r.threw THEN r ELSE Returned(r.id, snap.name)

TodoFrame == UNCHANGED <<arrayVars, lateVars, checkVars, visitVars, unionVars, refVars,
                         childVars>>

\* Todo.is(snap)
TodoIs ==
    \E snap \in TodoSnapshots :
        /\ todoCall' = [op |-> "is", value |-> snap]
        /\ todoOutcome' = IF todoValidate(snap) = <<>> THEN Returned(todoId, todoName)
                          ELSE Threw(NotValid, snap.id, Null, todoId, todoName)
        /\ UNCHANGED <<todoId, todoName>>
        /\ TodoFrame

\* Todo.create(snap)
TodoCreate ==
    /\ todoId = Null
    /\ \E snap \in TodoSnapshots :
           LET r == todoCreate(snap)
           IN /\ todoCall' = [op |-> "create", value |-> snap]
              /\ todoOutcome' = r
              /\ todoId' = r.id
              /\ todoName' = r.name
    /\ TodoFrame

\* todo.id = value, on the unprotected instance
TodoAssignId ==
    /\ todoId # Null
    /\ \E value \in IdStrings :
           LET r == identifierAssign(todoId, todoName, value)
           IN /\ todoCall' = [op |-> "assign", value |-> value]
              /\ todoOutcome' = r
              /\ todoId' = r.id
              /\ todoName' = r.name
    /\ TodoFrame

\* todo.name = value
TodoAssignName ==
    /\ todoId # Null
    /\ \E value \in Names \ {todoName} :
           /\ todoCall' = [op |-> "rename", value |-> value]
           /\ todoOutcome' = Returned(todoId, value)
           /\ todoName' = value
    /\ UNCHANGED todoId
    /\ TodoFrame

\* applySnapshot(todo, snap)
TodoApplySnapshot ==
    /\ todoId # Null
    /\ \E snap \in TodoSnapshots :
           LET r == todoApplySnapshot(todoId, todoName, snap)
           IN /\ todoCall' = [op |-> "applySnapshot", value |-> snap]
              /\ todoOutcome' = r
              /\ todoId' = r.id
              /\ todoName' = r.name
    /\ TodoFrame

\* ============================================================ reference
\* The store of "it should support prefixed paths in arrays": users, an array
\* of User nodes, and user, a reference to a User; in identifier mode the
\* reference has the base path "/users", in path mode it is generic and holds
\* a path.
MaxUsers == 3      \* most users in the store

UserNodes == 1 .. MaxUsers

\* The identifier of a user node: "17", "18", ...; it never changes.
idOf(node) == str(16 + node)

PositionOf(list, node) == CHOOSE j \in 1 .. Len(list) : list[j] = node

\* store.user = node, in a mode that is not looked at: the path is stored.
referenceSetPath(mode, list, node) == <<"users", str(PositionOf(list, node) - 1)>>

\* store.user = node: the identifier of the node, or its path, is computed
\* and stored at the time of the write.
referenceSet(mode, list, node) ==
    IF mode = "identifier" THEN idOf(node)
    ELSE <<"users", str(PositionOf(list, node) - 1)>>

\* The node a stored value leads to now, 0 if none: the user of the base
\* collection with the stored identifier, or the node at the stored path.
referenceResolve(mode, list, value) ==
    IF mode = "identifier"
    THEN IF \E j \in 1 .. Len(list) : idOf(list[j]) = value
         THEN list[CHOOSE j \in 1 .. Len(list) : idOf(list[j]) = value]
         ELSE 0
    ELSE IF parseInt(value[2]) < Len(list) THEN At(list, parseInt(value[2])) ELSE 0

\* store.user: the stored value is resolved by the read.
referenceGet(mode, list, names, value) ==
    LET node == referenceResolve(mode, list, value)
    IN IF node = 0 THEN [threw |-> TRUE, node |-> 0, name |-> Null]
       ELSE [threw |-> FALSE, node |-> node, name |-> names[node]]

\* The snapshot of the property: the identifier, or the path as a $ref.
referenceSerialize(mode, value) ==
    IF mode = "identifier" THEN value ELSE [ref |-> value]

NoRead == [threw |-> FALSE, node |-> 0, name |-> Null]

RefFrame ==
    UNCHANGED <<arrayVars, lateVars, checkVars, visitVars, unionVars, todoVars, childVars,
                refMode>>

\* store.user = store.users[index]
RefAssign ==
    /\ \E index \in 0 .. (Len(users) - 1) :
           /\ stored' = referenceSet(refMode, users, At(users, index))
           /\ assigned' = At(users, index)
           /\ assignedAt' = index
           /\ refCall' = [op |-> "assign", index |-> index]
    /\ refResult' = NoRead
    /\ UNCHANGED <<users, userName>>
    /\ RefFrame

\* store.users[index].name = name
RefRename ==
    /\ \E index \in 0 .. (Len(users) - 1) :
           \E name \in Names \ {userName[At(users, index)]} :
               /\ userName' = [userName EXCEPT ![At(users, index)] = name]
               /\ refCall' = [op |-> "rename", index |-> index]
    /\ refResult' = NoRead
    /\ UNCHANGED <<users, stored, assigned, assignedAt>>
    /\ RefFrame

\* store.users.unshift(user) / push(user): a user is added in front of the
\* others, which move up by one, or behind them.
RefInsert ==
    /\ Len(users) < MaxUsers
    /\ \E index \in {0, Len(users)} :
           /\ users' = Slice(users, 0, index) \o <<Len(users) + 1>>
                           \o Slice(users, index, Len(users))
           /\ refCall' = [op |-> "insert", index |-> index]
    /\ refResult' = NoRead
    /\ UNCHANGED <<userName, stored, assigned, assignedAt>>
    /\ RefFrame

\* store.user (and a property of it) is read
RefRead ==
    /\ refCall' = [op |-> "read", index |-> 0]
    /\ refResult' = referenceGet(refMode, users, userName, stored)
    /\ UNCHANGED <<users, userName, stored, assigned, assignedAt>>
    /\ RefFrame

\* ========================================================= child lookup
\* getChildMSTs and getChildMST of the array type, on the array of one node.
\* A key is a string; it is modelled as the sequence of its characters, so
\* that parsing a key and printing an index are computed, not assumed.
MaxKey == 2        \* longest key looked up

Digits == <<"0", "1", "2", "3", "4", "5", "6", "7", "8", "9">>

IsDigit(c) == \E d \in 1 .. Len(Digits) : Digits[d] = c

DigitValue(c) == (CHOOSE d \in 1 .. Len(Digits) : Digits[d] = c) - 1

\* The characters keys are made of: the digits of the indices within the
\* bound and one past it, a sign of either kind, white space and a letter.
KeyChars == {Digits[d + 1] : d \in 0 .. MaxLen} \cup {"-", "+", " ", "a"}

Keys == SeqsUpTo(KeyChars, MaxKey)

\* "" + index
RECURSIVE numberToString(_)
numberToString(i) ==
    IF i < 10 THEN <<Digits[i + 1]>>
    ELSE numberToString(i \div 10) \o <<Digits[(i % 10) + 1]>>

\* A number as the language has it: an integer or NaN.
NaN == [nan |-> TRUE, v |-> 0]
Number(v) == [nan |-> FALSE, v |-> v]

RECURSIVE TrimLeft(_)
TrimLeft(key) == IF key # <<>> /\ Head(key) = " " THEN TrimLeft(Tail(key)) ELSE key

RECURSIVE DigitsPrefix(_)
DigitsPrefix(key) ==
    IF key # <<>> /\ IsDigit(Head(key))
    THEN <<Head(key)>> \o DigitsPrefix(Tail(key))
    ELSE <<>>

RECURSIVE DecimalValue(_)
DecimalValue(digits) ==
    IF digits = <<>> THEN 0
    ELSE 10 * DecimalValue(SubSeq(digits, 1, Len(digits) - 1))
             + DigitValue(digits[Len(digits)])

\* parseInt(key, 10): leading white space is skipped, a sign is taken, then
\* the longest run of digits is read and whatever follows it is ignored; a
\* key without such a run gives NaN.
parseIntRadix10(key) ==
    LET trimmed == TrimLeft(key)
        signed == trimmed # <<>> /\ Head(trimmed) \in {"-", "+"}
        sign == IF signed /\ Head(trimmed) = "-" THEN 0 - 1 ELSE 1
        digits == DigitsPrefix(IF signed THEN Tail(trimmed) ELSE trimmed)
    IN  IF digits = <<>> THEN NaN ELSE Number(sign * DecimalValue(digits))

\* index < target.length: false for NaN
lessThanLength(index, target) == ~ index.nan /\ index.v < Len(target)

\* target[index]: undefined where the array has no element
elementAt(target, index) ==
    IF index >= 0 /\ index < Len(target)
    THEN At(target, index)
    ELSE [k |-> "undefined", v |-> 0]

\* nothing(): null
nothing == [k |-> "null", v |-> 0]

\* maybeMST(value, identity, nothing)
maybeMST(value) == IF isMST(value) THEN value ELSE nothing

\* ArrayType.getChildMSTs(node), as a function of node.target
getChildMSTs(target) ==
    LET pairs == [j \in 1 .. Len(target) |-> <<numberToString(j - 1), target[j]>>]
        isNodePair(pair) == isMST(pair[2])
    IN  SelectSeq(pairs, isNodePair)

\* ArrayType.getChildMST(node, key), as a function of node.target
getChildMST(target, key) ==
    LET index == parseIntRadix10(key)
    IN  IF lessThanLength(index, target)
        THEN maybeMST(elementAt(target, index.v))
        ELSE nothing

NoChildCall == [op |-> "none", key |-> <<>>]
NoChildResult == [list |-> <<>>, node |-> nothing]

ChildFrame == UNCHANGED <<arrayVars, lateVars, checkVars, visitVars, unionVars, todoVars,
                          refVars>>

\* getChildMSTs(node) on the node of the array
GetChildMSTs ==
    /\ pc = "idle"
    /\ childCall' = [op |-> "getChildMSTs", key |-> <<>>]
    /\ childResult' = [list |-> getChildMSTs(items), node |-> nothing]
    /\ ChildFrame

\* getChildMST(node, key) on the node of the array
GetChildMST ==
    /\ pc = "idle"
    /\ \E key \in Keys :
           /\ childCall' = [op |-> "getChildMST", key |-> key]
           /\ childResult' = [list |-> <<>>, node |-> getChildMST(items, key)]
    /\ ChildFrame

\* ----------------------------------------------------- the specifications
\* createNewInstance and the registrations of finalizeNewInstance: an empty
\* array of a protected node; the member type is a primitive or a model.
ArrayInit ==
    /\ subType \in {"number", "model"}
    /\ items = <<>>
    /\ live = {}
    /\ parent = [n \in NodeIds |-> "none"]
    /\ subpath = [n \in NodeIds |-> ""]
    /\ snapshot = [n \in NodeIds |-> 0]
    /\ writable = FALSE
    /\ pc = "idle"
    /\ change = NoChange
    /\ call = NoCall
    /\ preItems = <<>>
    /\ preSnapshot = <<>>
    /\ patches = <<>>

\* new Late(name, definition): the supplier is stored, not invoked.
LateInit ==
    /\ binding \in Targets
    /\ _subType = Null
    /\ definitionCalls = 0
    /\ accessed = FALSE
    /\ usedTargets = {}
    /\ lateCall = NoLateCall
    /\ lateResult = Null

CheckInit ==
    /\ checkValue \in CheckValues
    /\ checkContext \in CheckContexts
    /\ checkDone = FALSE
    /\ checkResult = <<>>

VisitInit ==
    /\ snapshotTree \in SnapshotTrees
    /\ junk \in 0 .. Len(snapshotTree)
    /\ entry \in {"Book", "late(Book)", "late(Book)[]"}
    /\ visitOp \in {"validate", "create", "describe"}
    /\ visitPc = "ready"
    /\ stack = <<>>
    /\ visits = 0
    /\ failures = 0

UnionInit ==
    /\ unionArgs \in UnionArgs
    /\ unionSnapshot \in UnionSnapshots
    /\ unionDone = FALSE
    /\ unionResult = Null

TodoInit ==
    /\ todoId = Null
    /\ todoName = Null
    /\ todoCall = [op |-> "none", value |-> Null]
    /\ todoOutcome = Returned(Null, Null)

\* UserStore.create({user: "17", users: [{id: "17", ...}, {id: "18", ...}]})
RefInit ==
    /\ refMode \in {"identifier", "path"}
    /\ users = <<1, 2>>
    /\ userName \in [UserNodes -> {"Michel"}]
    /\ stored = referenceSet(refMode, users, 1)
    /\ assigned = 0
    /\ assignedAt = 0
    /\ refCall = [op |-> "none", index |-> 0]
    /\ refResult = NoRead

\* The part of each specification that stays as constructed.
VisitIdle == snapshotTree = <<0>> /\ junk = 0 /\ entry = "Book" /\ visitOp = "describe" /\ VisitInit

UnionIdle ==
    /\ unionArgs = <<"Square", "Box">>
    /\ unionSnapshot = [k \in {"width", "height", "depth"} |-> "undefined"]
    /\ UnionInit

RefIdle == refMode = "identifier" /\ RefInit

ChildInit == childCall = NoChildCall /\ childResult = NoChildResult

RestIdle == VisitIdle /\ UnionIdle /\ TodoInit /\ RefIdle /\ ChildInit

ArrayIdle == subType = "number" /\ ArrayInit

LateIdle == binding = "number" /\ LateInit

CheckIdle == checkValue = [shape |-> "scalar", elems |-> <<>>] /\ checkContext = <<>> /\ CheckInit

Init == ArrayInit /\ LateIdle /\ CheckIdle /\ RestIdle

Next ==
    \/ ArrayUpdate
    \/ ArraySplice
    \/ applySnapshot
    \/ removeChild
    \/ applyPatchLocally
    \/ Commit
    \/ DidChange
    \/ Return
    \/ unprotect

Spec == Init /\ [][Next]_vars

InitLate == ArrayIdle /\ LateInit /\ CheckIdle /\ RestIdle

NextLate ==
    \/ GetFlags
    \/ Create
    \/ Describe
    \/ Validate
    \/ GetIdentifierAttribute
    \/ Rebind

SpecLate == InitLate /\ [][NextLate]_vars

InitCheck == ArrayIdle /\ LateIdle /\ CheckInit /\ RestIdle

NextCheck == ValidateSnapshot

SpecCheck == InitCheck /\ [][NextCheck]_vars

InitVisit ==
    ArrayIdle /\ LateIdle /\ CheckIdle /\ VisitInit /\ UnionIdle /\ TodoInit /\ RefIdle
        /\ ChildInit

NextVisit ==
    \/ VisitCall
    \/ VisitStep
    \/ VisitInstantiate
    \/ VisitInstantiateStep
    \/ VisitReturn

\* An operation runs to completion before control returns to the caller:
\* a visit that is due is made.
SpecVisit == InitVisit /\ [][NextVisit]_vars /\ WF_vars(NextVisit)

InitUnion ==
    ArrayIdle /\ LateIdle /\ CheckIdle /\ VisitIdle /\ UnionInit /\ TodoInit /\ RefIdle
        /\ ChildInit

NextUnion == UnionCreate

SpecUnion == InitUnion /\ [][NextUnion]_vars

InitTodo ==
    ArrayIdle /\ LateIdle /\ CheckIdle /\ VisitIdle /\ UnionIdle /\ TodoInit /\ RefIdle
        /\ ChildInit

NextTodo ==
    \/ TodoIs
    \/ TodoCreate
    \/ TodoAssignId
    \/ TodoAssignName
    \/ TodoApplySnapshot

SpecTodo == InitTodo /\ [][NextTodo]_vars

InitRef ==
    ArrayIdle /\ LateIdle /\ CheckIdle /\ VisitIdle /\ UnionIdle /\ TodoInit /\ RefInit
        /\ ChildInit

NextRef ==
    \/ RefAssign
    \/ RefRename
    \/ RefInsert
    \/ RefRead

SpecRef == InitRef /\ [][NextRef]_vars

\* types.array(T).create(snapshot): finalizeNewInstance applies the snapshot
\* to the new array, so a created array of a model type holds one child for
\* each element of the snapshot, and one of a primitive type the elements.
ArrayCreated ==
    /\ subType \in {"number", "model"}
    /\ \E snap \in SeqsUpTo({Plain(v) : v \in SnapVals}, MaxLen) :
           /\ items = IF subType = "model" THEN [j \in 1 .. Len(snap) |-> Node(j)] ELSE snap
           /\ live = NodesOf(items)
           /\ parent = [n \in NodeIds |-> IF n \in live THEN "array" ELSE "none"]
           /\ subpath = [n \in NodeIds |-> IF n \in live THEN str(n - 1) ELSE ""]
           /\ snapshot = [n \in NodeIds |-> IF n \in live THEN snap[n].v ELSE 0]
    /\ writable = FALSE
    /\ pc = "idle"
    /\ change = NoChange
    /\ call = NoCall
    /\ preItems = <<>>
    /\ preSnapshot = <<>>
    /\ patches = <<>>

InitChild ==
    ArrayCreated /\ LateIdle /\ CheckIdle /\ VisitIdle /\ UnionIdle /\ TodoInit /\ RefIdle
        /\ ChildInit

NextChild ==
    \/ GetChildMSTs
    \/ GetChildMST

SpecChild == InitChild /\ [][NextChild]_vars

TypeOK ==
    /\ pc \in {"idle", "intercepted", "changed", "done", "rejected", "cancelled"}
    /\ Len(items) <= MaxLen
    /\ live \subseteq NodeIds

\* ================================================================ claims
\* The mutation in flight was accepted and ran to completion as a splice.
SpliceDone == pc = "done" /\ change.type = "splice"

UpdateDone == pc = "done" /\ change.type = "update"

CountOf(patch) == Cardinality({j \in 1 .. Len(patches) : patches[j] = patch})

\* C1: an accepted splice that removes r elements at index i and inserts a
\* elements emits exactly r + a patches: one remove patch for each index
\* i .. i+r-1 and one add patch, carrying the snapshot of the inserted
\* element, for each index i .. i+a-1.
C1_SplicePatchPerElement ==
    SpliceDone =>
        LET i == call.request.index
            r == call.request.removedCount
            a == Len(call.request.added)
        IN /\ Len(patches) = r + a
           /\ \A k \in i .. (i + r - 1) : CountOf(Patch("remove", str(k), Undefined)) = 1
           /\ \A k \in i .. (i + a - 1) :
                 CountOf(Patch("add", str(k), <<valueToSnapshot(At(items, k))>>)) = 1

\* C2: in the patches of one splice every remove patch comes before every
\* add patch, the paths of the remove patches strictly decrease and the
\* paths of the add patches strictly increase.
C2_RemovesDownThenAddsUp ==
    SpliceDone =>
        \A j, k \in 1 .. Len(patches) :
            j < k =>
                /\ ~ (patches[j].op = "add" /\ patches[k].op = "remove")
                /\ (patches[j].op = "remove" /\ patches[k].op = "remove")
                      => parseInt(patches[j].path) > parseInt(patches[k].path)
                /\ (patches[j].op = "add" /\ patches[k].op = "add")
                      => parseInt(patches[j].path) < parseInt(patches[k].path)

\* C3: an accepted update of the element at index k emits exactly one patch:
\* a replace patch whose path is k and whose value is the snapshot of the
\* new element.
C3_UpdateEmitsOneReplace ==
    UpdateDone =>
        /\ Len(patches) = 1
        /\ patches[1] = Patch("replace", str(call.request.index),
                              <<valueToSnapshot(At(items, call.request.index))>>)
        /\ At(items, call.request.index) # At(preItems, call.request.index)

C3_Witness ==
    /\ UpdateDone
    /\ call.api = "update"
    /\ call.request.index > 0
    /\ Len(patches) = 1

\* C4: a mutation that willChange rejects changes nothing: the step that
\* rejects it leaves the array as it was, leaves every child that was in the
\* array alive with its parent, path segment and snapshot, and attaches no
\* other node to the array; no patch is emitted for it.
C4_RejectedChangesNothing ==
    [][/\ (pc = "idle" /\ pc' = "rejected") =>
             /\ items' = items
             /\ \A n \in NodesOf(items) :
                   /\ n \in live'
                   /\ parent'[n] = parent[n]
                   /\ subpath'[n] = subpath[n]
                   /\ snapshot'[n] = snapshot[n]
             /\ \A n \in NodeIds \ NodesOf(items) : parent'[n] # "array"
             /\ patches' = <<>>
       /\ pc = "rejected" => (pc' = "idle" /\ items' = items /\ patches' = <<>>)]_vars

\* A splice with a failing value behind a conforming one, in front of
\* children that the splice would have moved, was rejected for validation.
C4_Witness ==
    /\ pc = "rejected"
    /\ writable
    /\ subType = "model"
    /\ change.type = "splice"
    /\ Len(change.added) = 2
    /\ change.added[1].k = "plain"
    /\ change.added[2].k = "invalid"
    /\ change.index + change.removedCount < Len(items)

\* Every child at position k has the array node as parent and "k" as path
\* segment.
Consistent(target) ==
    \A j \in 1 .. Len(target) :
        isMST(target[j]) =>
            /\ target[j].v \in live
            /\ parent[target[j].v] = "array"
            /\ subpath[target[j].v] = str(j - 1)

\* The array as the container will make it from the intercepted change.
Committed ==
    IF change.type = "update"
    THEN [items EXCEPT ![change.index + 1] = newValueOf(change)]
    ELSE Slice(items, 0, change.index) \o change.added
             \o Slice(items, change.index + change.removedCount, Len(items))

RECURSIVE Replay(_, _)
Replay(target, stream) ==
    IF stream = <<>> THEN target
    ELSE Replay(applyPatchTo(target, stream[1].path, stream[1]), Tail(stream))

\* C6: applying the patches of an accepted mutation, in emission order, to
\* an array whose snapshot is the pre-mutation snapshot gives the
\* post-mutation snapshot.
C6_PatchesReplay ==
    pc = "done" => Replay(preSnapshot, patches) = serialize(items)

\* C7: a conforming snapshot is accepted by applySnapshot whatever the array
\* held, and afterwards serialize(node) is that snapshot, element by element.
C7_SnapshotRoundTrip ==
    call.api = "applySnapshot" =>
        LET s == call.request.added
        IN /\ pc = "rejected" => \E j \in 1 .. Len(s) : s[j].k = "invalid"
           /\ pc = "done" =>
                 /\ Len(serialize(items)) = Len(s)
                 /\ \A j \in 1 .. Len(s) : serialize(items)[j] = s[j].v

\* A snapshot of two different elements replaced other contents.
C7_Witness ==
    /\ pc = "done"
    /\ call.api = "applySnapshot"
    /\ Len(preItems) > 0
    /\ Len(items) = 2
    /\ serialize(items)[1] # serialize(items)[2]
    /\ serialize(items) # preSnapshot

\* ------------------------------------------------------------------ C8
\* The sub-paths of element i that the member type finds violated.
Violated(elems, i) ==
    IF At(elems, i).shape # "object" THEN {<<str(i)>>}
    ELSE {<<str(i), p>> : p \in {q \in {"x", "y"} : At(elems, i)[q] # "num"}}

\* The index of the element a failure of an array value is about.
ElementOf(failure) == parseInt(failure.context[Len(checkContext) + 1])

\* C8: a value that is no array yields exactly one failure, at the array's
\* own context; for an array value the result is a success exactly if every
\* element validates, and otherwise it lists, in index order, one failure
\* for each violated sub-path of each element, and nothing else.
C8_ValidationAggregates ==
    checkDone =>
        IF checkValue.shape # "array"
        THEN /\ Len(checkResult) = 1
             /\ checkResult[1].context = checkContext
        ELSE LET elems == checkValue.elems
                 all == UNION {Violated(elems, i) : i \in 0 .. (Len(elems) - 1)}
             IN /\ (checkResult = <<>>) <=>
                       (\A i \in 0 .. (Len(elems) - 1) :
                           memberValidate(At(elems, i), <<>>) = <<>>)
                /\ Len(checkResult) = Cardinality(all)
                /\ \A path \in all :
                      \E j \in 1 .. Len(checkResult) :
                          checkResult[j].context = checkContext \o path
                /\ \A j, k \in 1 .. Len(checkResult) :
                      j < k => ElementOf(checkResult[j]) <= ElementOf(checkResult[k])

\* An array value whose first and second element both fail was validated.
C8_Witness ==
    /\ checkDone
    /\ checkValue.shape = "array"
    /\ Len(checkValue.elems) = 2
    /\ Violated(checkValue.elems, 0) # {}
    /\ Cardinality(Violated(checkValue.elems, 1)) = 2
    /\ Len(checkResult) >= 3

\* ------------------------------------------------------------------ C9
\* C9: constructing the late type does not invoke the supplier; over any
\* sequence of accesses the supplier is invoked at most once, on the first
\* access, and every access works on the one target that was cached.
C9_SupplierInvokedOnce ==
    /\ definitionCalls <= 1
    /\ ~ accessed => (definitionCalls = 0 /\ _subType = Null)
    /\ accessed => (definitionCalls = 1 /\ _subType # Null /\ usedTargets = {_subType})

\* Accesses went on after the supplier's binding had changed.
C9_Witness ==
    /\ accessed
    /\ binding # _subType
    /\ lateCall.op = "validate"
    /\ definitionCalls = 1

\* ----------------------------------------------------------------- C10
\* C10: validate, create, identifierAttribute and flags of a late type
\* return what the same call on the resolved target returns.
C10_LateForwards ==
    /\ lateCall.op = "validate" =>
          lateResult = typeValidate(_subType, lateCall.value, lateCall.context)
    /\ lateCall.op = "create" =>
          lateResult = typeCreate(_subType, lateCall.value, lateCall.environment)
    /\ lateCall.op = "identifierAttribute" =>
          lateResult = typeIdentifierAttribute(_subType)
    /\ lateCall.op = "flags" => lateResult = typeFlags(_subType)

\* An instance was created through the late type in an environment.
C10_Witness ==
    /\ lateCall.op = "create"
    /\ lateCall.environment = "env"
    /\ ~ lateResult.threw
    /\ lateResult.type = "Book"

SnapshotSize == Len(snapshotTree)

\* C12: on the descriptor graph that is cyclic through the late type,
\* validate and create on a finite snapshot and describe make a bounded
\* number of descriptor visits (for describe: bounded by the graph alone) and
\* return.
C12_TraversalTerminates ==
    /\ [](visits <= VisitBudget(visitOp, SnapshotSize))
    /\ <>(visitPc = "returned" /\ stack = <<>>)

\* create came back from a snapshot of nested Books, having passed through
\* the late type into Book again.
C12_Witness ==
    /\ visitPc = "returned"
    /\ visitOp = "create"
    /\ entry = "late(Book)"
    /\ SnapshotSize >= 3
    /\ \E i \in 1 .. SnapshotSize : snapshotTree[i] >= 2
    /\ failures = 0
    /\ visits > 2 * SnapshotSize

\* ----------------------------------------------------------------- C13
\* The members of the union that validate the snapshot.
Validating ==
    {m \in Range(unionArgs) : modelValidate(propertiesOf(m), unionSnapshot, <<>>) = <<>>}

\* C13: for a union without dispatch the outcome is decided by how many
\* members validate the snapshot: exactly one selects it, and the instance is
\* an instance of that member and of no other; two or more fail with the
\* "Multiple types" message and no sub-errors; in the failing cases no tree
\* node is created.
C13_UnionByElimination ==
    unionDone =>
        /\ Cardinality(Validating) = 1 =>
              /\ ~ unionResult.threw
              /\ \A m \in Range(unionArgs) : is(m, unionResult) <=> m \in Validating
        /\ Cardinality(Validating) >= 2 =>
              /\ unionResult.threw
              /\ unionResult.message = MultipleApplicable
              /\ unionResult.errors = <<>>
        /\ Cardinality(Validating) # 1 => (unionResult.threw /\ unionResult.created = 0)

\* Plane.create({width: 2, height: 2}) was refused as ambiguous.
C13_Witness ==
    /\ unionDone
    /\ unionArgs = <<"Square", "Box">>
    /\ unionSnapshot = [width |-> "num", height |-> "num", depth |-> "undefined"]
    /\ unionResult.threw
    /\ unionResult.message = MultipleApplicable

\* ----------------------------------------------------------------- C14
\* C14 as claimed: when no member validates the snapshot, create fails with
\* the "No type" message followed by every member's failures, in the order
\* in which the members were passed to types.union.
C14_FailuresInPassedOrder ==
    (unionDone /\ Validating = {}) =>
        /\ unionResult.threw
        /\ unionResult.message = NoneApplicable
        /\ unionResult.errors =
               modelValidate(propertiesOf(unionArgs[1]), unionSnapshot, <<>>)
                   \o modelValidate(propertiesOf(unionArgs[2]), unionSnapshot, <<>>)

\* C14, amended: when no member validates the snapshot, create fails with
\* the "No type" message followed by every member's failures, each with its
\* sub-path, in the order of the union's name: for types.union(A, B), named
\* "B | A", the failures of B and then those of A.
C14_FailuresInNameOrder ==
    (unionDone /\ Validating = {}) =>
        /\ unionResult.threw
        /\ unionResult.message = NoneApplicable
        /\ unionResult.errors =
               modelValidate(propertiesOf(unionArgs[2]), unionSnapshot, <<>>)
                   \o modelValidate(propertiesOf(unionArgs[1]), unionSnapshot, <<>>)

\* Heighed.create({height: 2}) failed with the failures at /width, /depth
\* (Cube) and /width (Box).
C14_Witness ==
    /\ unionDone
    /\ unionArgs = <<"Box", "Cube">>
    /\ unionSnapshot = [width |-> "undefined", height |-> "num", depth |-> "undefined"]
    /\ unionResult.threw
    /\ Len(unionResult.errors) = 3
    /\ unionResult.errors[1].context = <<"width">>
    /\ unionResult.errors[2].context = <<"depth">>
    /\ unionResult.errors[3].context = <<"width">>

\* ----------------------------------------------------------------- C15
\* C15: a snapshot without the identifier is invalid for the model: is,
\* create and applySnapshot fail on it; on an instance, assigning a value
\* other than the identifier it has fails with the immutability error that
\* names the new and the old value; the identifier of an instance is the
\* same in every state from its creation on.
C15_IdentifierRequiredImmutable ==
    [][/\ (todoCall'.op \in {"is", "create", "applySnapshot"}
              /\ todoCall'.value.id = "undefined") =>
             (todoOutcome'.threw /\ todoId' = todoId /\ todoName' = todoName)
       /\ (todoCall'.op = "assign" /\ todoCall'.value # todoId) =>
             /\ todoOutcome'.threw
             /\ todoOutcome'.message = NotAllowed
             /\ todoOutcome'.got = todoCall'.value
             /\ todoOutcome'.expected = todoId
       /\ todoId # Null => todoId' = todoId]_vars

\* todo.id = "stuff" was refused on the instance created with id "x".
C15_Witness ==
    /\ todoId = "x"
    /\ todoCall.op = "assign"
    /\ todoCall.value = "stuff"
    /\ todoOutcome.threw
    /\ todoOutcome.got = "stuff"
    /\ todoOutcome.expected = "x"

\* ----------------------------------------------------------------- C16
\* The property was read after a node had been assigned to it.
ReadAfterAssign == refCall.op = "read" /\ assigned # 0

OncePerNode(target) ==
    \A j, k \in 1 .. Len(target) :
        (j # k /\ isMST(target[j])) => target[j] # target[k]

\* The nodes offered by the mutation in flight that were attached when it
\* started and are not among the elements it removes: children of another
\* tree, and children of this array outside the removed range.
OfferedAttached ==
    LET req == call.request
        removed == IF req.type = "update" THEN <<At(preItems, req.index)>>
                   ELSE Slice(preItems, req.index, req.index + req.removedCount)
    IN {j \in 1 .. Len(req.added) :
           \/ req.added[j].k = "foreign"
           \/ /\ isMST(req.added[j])
              /\ req.added[j].v \in NodesOf(preItems) \ NodesOf(removed)}

IdenticalUpdate ==
    /\ pc = "idle"
    /\ call'.request.type = "update"
    /\ call'.request.added[1] = At(items, call'.request.index)

\* Nothing of the array or of the nodes changes and no patch is emitted.
NothingChanges ==
    /\ items' = items
    /\ live' = live
    /\ parent' = parent
    /\ subpath' = subpath
    /\ snapshot' = snapshot
    /\ patches' = <<>>

\* C18 as claimed: updating an index with the value that is already there is
\* cancelled in willChange; elements, parents and path segments stay and no
\* patch is emitted.
C18_IdenticalUpdateCancelled ==
    [][/\ IdenticalUpdate => (pc' = "cancelled" /\ NothingChanges)
       /\ pc = "cancelled" => (pc' = "idle" /\ NothingChanges)]_vars

\* C18, amended: on a writable node, updating an index with the value that
\* is already there is cancelled in willChange; on a node that is not
\* writable it is rejected by the writability check, which comes first.
\* Either way nothing is reconciled, elements, parents and path segments
\* stay and no patch is emitted.
C18_IdenticalUpdateCancelledIfWritable ==
    [][/\ IdenticalUpdate =>
             /\ pc' = (IF writable THEN "cancelled" ELSE "rejected")
             /\ NothingChanges
       /\ pc = "cancelled" => (pc' = "idle" /\ NothingChanges)]_vars

\* The update of a child of a writable array with that same child was
\* cancelled.
C18_Witness ==
    /\ pc = "cancelled"
    /\ writable
    /\ subType = "model"
    /\ call.request.type = "update"
    /\ isMST(call.request.added[1])
    /\ call.request.added[1] = At(items, call.request.index)

\* ----------------------------------------------------------------- C19
\* C19: every patch of an accepted mutation addresses an element: its path
\* is an index, never the empty string; a remove patch names an index of the
\* array as it was, an add or replace patch an index of the array as it is;
\* a splice emits no replace patch and no patch twice.
C19_PatchesAddressElements ==
    pc = "done" =>
        \A j \in 1 .. Len(patches) :
            /\ patches[j].path # ""
            /\ IsIndex(patches[j].path)
            /\ patches[j].op = "remove" => parseInt(patches[j].path) < Len(preItems)
            /\ patches[j].op \in {"add", "replace"} => parseInt(patches[j].path) < Len(items)
            /\ change.type = "splice" =>
                  /\ patches[j].op # "replace"
                  /\ CountOf(patches[j]) = 1

\* ----------------------------------------------------------------- C20
\* A mutation by update or splice enters willChange on a node that is not
\* writable.
UnwritableMutation ==
    /\ pc = "idle"
    /\ ~ writable
    /\ call'.api \in {"update", "splice", "removeChild", "applyPatchLocally"}

\* C20: on a node that is not writable every update and every splice is
\* rejected before any child is reconciled, re-parented or re-indexed: the
\* array and its children's bookkeeping are as before, no node has become a
\* child of the array, and no patch is emitted.
C20_WritableCheckedFirst ==
    [][/\ UnwritableMutation =>
             /\ pc' = "rejected"
             /\ items' = items
             /\ \A n \in live : n \in live' /\ snapshot'[n] = snapshot[n]
             /\ \A n \in NodeIds :
                   /\ (parent'[n] = "array") <=> (parent[n] = "array")
                   /\ parent[n] = "array" => subpath'[n] = subpath[n]
             /\ patches' = <<>>
       /\ (pc = "rejected" /\ ~ writable) =>
             (pc' = "idle" /\ items' = items /\ patches' = <<>>)]_vars

\* A splice of conforming values that would have created a child and moved
\* another was rejected on a node that is not writable.
C20_Witness ==
    /\ pc = "rejected"
    /\ ~ writable
    /\ subType = "model"
    /\ change.type = "splice"
    /\ Len(change.added) > 0
    /\ \A j \in 1 .. Len(change.added) : change.added[j].k = "plain"
    /\ change.index + change.removedCount < Len(items)
    /\ Len(change.added) # change.removedCount

\* ----------------------------------------------------------------- C21
\* The key is the decimal numeral of the index: digits only, no sign, no
\* white space, no leading zero.
Denotes(key, index) ==
    /\ key # <<>>
    /\ \A j \in 1 .. Len(key) : IsDigit(key[j])
    /\ Len(key) > 1 => key[1] # "0"
    /\ DecimalValue(key) = index

\* The key is an index below the current length whose element is a tree node.
KeyOfChild(key) ==
    \E index \in 0 .. (Len(items) - 1) : Denotes(key, index) /\ isMST(At(items, index))

\* getChildMSTs lists exactly the pairs (index, node) of the elements that
\* are tree nodes, in index order.
EnumerationExact ==
    childCall.op = "getChildMSTs" =>
        LET list == childResult.list
        IN  /\ \A p \in 1 .. Len(list) :
                   \E index \in 0 .. (Len(items) - 1) :
                       /\ Denotes(list[p][1], index)
                       /\ isMST(At(items, index))
                       /\ list[p][2] = At(items, index)
            /\ \A index \in 0 .. (Len(items) - 1) :
                   isMST(At(items, index)) =>
                       \E p \in 1 .. Len(list) : Denotes(list[p][1], index)
            /\ \A p, q \in 1 .. Len(list) :
                   p < q => DecimalValue(list[p][1]) < DecimalValue(list[q][1])

\* For every listed pair getChildMST(node, index) returns that node.
ListedPairsFound ==
    childCall.op = "getChildMST" =>
        LET list == getChildMSTs(items)
        IN  \A p \in 1 .. Len(list) :
                list[p][1] = childCall.key => childResult.node = list[p][2]

\* getChildMST returns null for every other key.
NullForOtherKeys ==
    (childCall.op = "getChildMST" /\ ~ KeyOfChild(childCall.key)) =>
        childResult.node = nothing

\* C21: child lookup on an array agrees with child enumeration: getChildMSTs
\* lists, in index order, exactly the pairs (index, node) of the elements
\* that are tree nodes; for every listed pair getChildMST(node, index)
\* returns that node; and getChildMST returns null, never a node, for a key
\* that is not an index below the current length or whose element is not a
\* tree node.
C21_LookupAgreesWithEnumeration ==
    /\ EnumerationExact
    /\ ListedPairsFound
    /\ NullForOtherKeys

====
